---- MODULE Spec2Model ----
(***************************************************************************)
(* The two-pass assembler of iridium (src/assembler) as a state machine.   *)
(* Spec drives one Assembler value through assemble() on a source text:    *)
(* the nom grammar applied to the characters of the text, the PIE header,  *)
(* pass 1 (labels, directives), the error / section gate and the returned  *)
(* Result.  SpecPasses runs the passes, pass 2 (encoding) included, on a   *)
(* Program value.  The passes are unrolled one instruction per step so     *)
(* that intermediate driver states are visible.                            *)
(***************************************************************************)
EXTENDS Integers, Sequences, FiniteSets, TLC

(***************************************************************************)
(* Bounds of the exploration.                                              *)
(***************************************************************************)
\* longest enumerated source text, in source statements
MaxLen == 3
\* number of assemble() calls explored in one behaviour
MaxCalls == 2

(***************************************************************************)
(* Program constants.                                                      *)
(***************************************************************************)
PIE_HEADER_PREFIX == <<45, 50, 49, 45>>
PIE_HEADER_LENGTH == 64
\* every encoded instruction is meant to be one word of this many bytes
WordSize == 4
\* marks an error kind that carries no instruction index
NoInstruction == -1

(***************************************************************************)
(* Tokens and instructions (Token, AssemblerInstruction).                  *)
(***************************************************************************)
Register(n) == [t |-> "Register", num |-> n, name |-> ""]
IntegerOperand(v) == [t |-> "IntegerOperand", num |-> v, name |-> ""]
LabelUsage(s) == [t |-> "LabelUsage", num |-> 0, name |-> s]
IrString(s) == [t |-> "IrString", num |-> 0, name |-> s]
LabelDeclaration(s) == [t |-> "LabelDeclaration", num |-> 0, name |-> s]

\* label "" is None, opcode "" is None, directive "" is None
AssemblerInstruction(l, o, d, ops) ==
    [label |-> l, opcode |-> o, directive |-> d, operands |-> ops]

OpInstr(l, o, ops) == AssemblerInstruction(l, o, "", ops)
DirInstr(l, d, ops) == AssemblerInstruction(l, "", d, ops)
\* a stretch of source text that no instruction form matches
Unparsable == AssemblerInstruction("", "", "", <<>>)

is_label(i) == i.label # ""
is_opcode(i) == i.opcode # ""
is_directive(i) == i.directive # ""
get_label_name(i) == i.label
get_directive_name(i) == i.directive
has_string_constant(i) ==
    Len(i.operands) >= 1 /\ i.operands[1].t = "IrString"
get_string_constant(i) == i.operands[1].name

\* str::as_bytes for the string literals of the explored sources
as_bytes(s) ==
    CASE s = "Hi" -> <<72, 105>>
      [] s = "A" -> <<65>>
      [] OTHER -> <<>>

(***************************************************************************)
(* Opcode numbering (instruction.rs): byte 0 of a word.                    *)
(***************************************************************************)
OpcodeByte(m) ==
    CASE m = "load" -> 0
      [] m = "add" -> 1
      [] m = "hlt" -> 5
      [] m = "jmp" -> 6
      [] m = "neq" -> 10
      [] m = "jmpe" -> 15
      [] m = "inc" -> 18
      [] OTHER -> 100


(***************************************************************************)
(* Source text is a sequence of characters (CompleteStr).  The character   *)
(* classes and the nom parsers that the grammar is built from.             *)
(***************************************************************************)
Alphabetic ==
    {"a", "b", "c", "d", "e", "f", "g", "h", "i", "j", "k", "l", "m",
     "n", "o", "p", "q", "r", "s", "t", "u", "v", "w", "x", "y", "z",
     "A", "B", "C", "D", "E", "F", "G", "H", "I", "J", "K", "L", "M",
     "N", "O", "P", "Q", "R", "S", "T", "U", "V", "W", "X", "Y", "Z"}
Digits == {"0", "1", "2", "3", "4", "5", "6", "7", "8", "9"}
Alphanumeric == Alphabetic \cup Digits
\* what ws! skips: nom's sp eats these
Whitespace == {" ", "\t", "\r", "\n"}

\* s without its first n characters
Drop(s, n) == SubSeq(s, n + 1, Len(s))

RECURSIVE take_while(_, _)
\* the longest prefix of s made of characters of class
take_while(class, s) ==
    IF s = <<>> \/ Head(s) \notin class THEN <<>>
    ELSE <<Head(s)>> \o take_while(class, Tail(s))

\* nom's sp: zero or more whitespace characters are dropped
sp(s) == Drop(s, Len(take_while(Whitespace, s)))

\* tag!(t)
tag(t, s) ==
    IF Len(s) >= Len(t) /\ SubSeq(s, 1, Len(t)) = t
    THEN [ok |-> TRUE, rest |-> Drop(s, Len(t))]
    ELSE [ok |-> FALSE, rest |-> s]

\* nom's digit: one or more digits
digit(s) ==
    LET w == take_while(Digits, s) IN
    [ok |-> w # <<>>, word |-> w, rest |-> Drop(s, Len(w))]

\* nom's alphanumeric: one or more letters or digits
alphanumeric(s) ==
    LET w == take_while(Alphanumeric, s) IN
    [ok |-> w # <<>>, word |-> w, rest |-> Drop(s, Len(w))]

RECURSIVE take_until_from(_, _)
\* the characters of s ahead of the first c; s itself when there is no c
take_until_from(c, s) ==
    IF s = <<>> \/ Head(s) = c THEN <<>>
    ELSE <<Head(s)>> \o take_until_from(c, Tail(s))

\* take_until!(c): fails when c is not in s
take_until(c, s) ==
    LET w == take_until_from(c, s) IN
    [ok |-> Len(w) < Len(s), word |-> w, rest |-> Drop(s, Len(w))]

DigitValue(c) ==
    CASE c = "0" -> 0 [] c = "1" -> 1 [] c = "2" -> 2 [] c = "3" -> 3
      [] c = "4" -> 4 [] c = "5" -> 5 [] c = "6" -> 6 [] c = "7" -> 7
      [] c = "8" -> 8 [] c = "9" -> 9

RECURSIVE parse_decimal(_)
\* str::parse of a run of digits (the explored texts hold no number that
\* overflows the target type)
parse_decimal(w) ==
    IF w = <<>> THEN 0
    ELSE parse_decimal(SubSeq(w, 1, Len(w) - 1)) * 10 + DigitValue(w[Len(w)])

\* The words of the explored texts, and how they are spelled.  Names are
\* kept as strings in tokens; to_string is the way from characters to a name.
Words ==
    {"load", "add", "hlt", "jmp", "neq", "jmpe", "inc",
     "data", "code", "bss", "asciiz",
     "hello", "test", "msg", "start", "Hi"}

spell(w) ==
    CASE w = "load" -> <<"l", "o", "a", "d">>
      [] w = "add" -> <<"a", "d", "d">>
      [] w = "hlt" -> <<"h", "l", "t">>
      [] w = "jmp" -> <<"j", "m", "p">>
      [] w = "neq" -> <<"n", "e", "q">>
      [] w = "jmpe" -> <<"j", "m", "p", "e">>
      [] w = "inc" -> <<"i", "n", "c">>
      [] w = "data" -> <<"d", "a", "t", "a">>
      [] w = "code" -> <<"c", "o", "d", "e">>
      [] w = "bss" -> <<"b", "s", "s">>
      [] w = "asciiz" -> <<"a", "s", "c", "i", "i", "z">>
      [] w = "hello" -> <<"h", "e", "l", "l", "o">>
      [] w = "test" -> <<"t", "e", "s", "t">>
      [] w = "msg" -> <<"m", "s", "g">>
      [] w = "start" -> <<"s", "t", "a", "r", "t">>
      [] w = "Hi" -> <<"H", "i">>

\* name.to_string(); a run of characters that spells none of Words is "?"
to_string(cs) ==
    IF \E w \in Words : spell(w) = cs
    THEN CHOOSE w \in Words : spell(w) = cs
    ELSE "?"

(***************************************************************************)
(* The opcode parser (opcode_parsers.rs): alpha1 takes the longest         *)
(* alphabetic prefix and fails on an empty one, Opcode::from turns the     *)
(* word into an Opcode.                                                    *)
(***************************************************************************)
\* longest enumerated input of the opcode parser run on its own, in characters
MaxText == 4
Letters == {"a", "d", "l", "o"}
Chars == Letters \cup {"1"}
Texts == UNION {[1..n -> Chars] : n \in 0..MaxText}

Op(code) == [t |-> "Op", num |-> 0, name |-> code]
NoToken == [t |-> "", num |-> 0, name |-> ""]

\* the longest prefix of s made of letters
AlphaPrefix(s) == take_while(Alphabetic, s)

\* nom's alpha1: one or more letters, and the rest of the input
alpha1(s) ==
    LET w == AlphaPrefix(s) IN
    [ok |-> w # <<>>, word |-> w, rest |-> SubSeq(s, Len(w) + 1, Len(s))]

LoadWord == <<"l", "o", "a", "d">>
AddWord == <<"a", "d", "d">>
\* the mnemonics that the explored texts use
Mnemonics ==
    {LoadWord, AddWord, spell("hlt"), spell("jmp"), spell("neq"),
     spell("jmpe"), spell("inc")}

\* Opcode::from(CompleteStr): the Opcode of a mnemonic, IGL for any other
\* word; an Opcode is written as the key that OpcodeByte takes
OpcodeFrom(w) == IF w \in Mnemonics THEN to_string(w) ELSE "igl"

ParseFailure == [ok |-> FALSE, rest |-> <<>>, token |-> NoToken]

\* the opcode parser with a table lookup that fails on an unknown mnemonic
opcode_from_table(s) ==
    LET r == alpha1(s) IN
    IF r.ok /\ r.word \in Mnemonics
    THEN [ok |-> TRUE, rest |-> r.rest, token |-> Op(OpcodeFrom(r.word))]
    ELSE ParseFailure
opcode(s) ==
    LET r == alpha1(s) IN
    IF r.ok THEN [ok |-> TRUE, rest |-> r.rest, token |-> Op(OpcodeFrom(r.word))]
    ELSE ParseFailure

(***************************************************************************)
(* Operand and label parsers.  ws!(...) drops whitespace ahead of, between *)
(* and after the parsers it wraps, and fails as a whole, consuming         *)
(* nothing, when one of them fails.                                        *)
(***************************************************************************)
\* ws!(tag!("#") >> digit)
integer_operand(s) ==
    LET h == tag(<<"#">>, sp(s))
        d == digit(sp(h.rest))
    IN IF h.ok /\ d.ok
       THEN [ok |-> TRUE, rest |-> sp(d.rest),
             token |-> IntegerOperand(parse_decimal(d.word))]
       ELSE ParseFailure

\* ws!(tag!("$") >> digit)
register(s) ==
    LET h == tag(<<"$">>, sp(s))
        d == digit(sp(h.rest))
    IN IF h.ok /\ d.ok
       THEN [ok |-> TRUE, rest |-> sp(d.rest),
             token |-> Register(parse_decimal(d.word))]
       ELSE ParseFailure

\* tag!("'") >> take_until!("'") >> tag!("'"), with no ws! around it
irstring(s) ==
    LET h == tag(<<"'">>, s)
        c == take_until("'", h.rest)
    IN IF h.ok /\ c.ok
       THEN [ok |-> TRUE, rest |-> Drop(c.rest, 1),
             token |-> IrString(to_string(c.word))]
       ELSE ParseFailure

\* alt!(integer_operand | register | irstring): there is no arm for `@label`
operand(s) ==
    IF integer_operand(s).ok THEN integer_operand(s)
    ELSE IF register(s).ok THEN register(s)
    ELSE irstring(s)

\* ws!(alphanumeric >> tag!(":"))
label_declaration(s) ==
    LET n == alphanumeric(sp(s))
        c == tag(<<":">>, sp(n.rest))
    IN IF n.ok /\ c.ok
       THEN [ok |-> TRUE, rest |-> sp(c.rest),
             token |-> LabelDeclaration(to_string(n.word))]
       ELSE ParseFailure

(***************************************************************************)
(* Grammar: program = many1!(instruction_combined).  The directive form    *)
(* (directive_combined, directive_parsers.rs) is not among the parsers     *)
(* that program calls.                                                     *)
(***************************************************************************)
NoInstructionParsed ==
    [ok |-> FALSE, rest |-> <<>>, instruction |-> Unparsable]

\* the element of a one-element set: x \in {e} names the value of e
Only(S) == CHOOSE x \in S : TRUE

\* where parsing goes on after opt!(...): past what it took, or from s
After(r, s) == IF r.ok THEN r.rest ELSE s
\* what opt!(...) hands on: Some(token) or None
Taken(r) == IF r.ok THEN <<r.token>> ELSE <<>>

\* opt!(label_declaration) >> opcode >> opt!(operand) >> opt!(operand) >>
\* opt!(operand), with no ws! around it
instruction_combined(s) ==
    Only({Only({Only({Only({Only({
        IF ~o.ok THEN NoInstructionParsed
        ELSE [ok |-> TRUE,
              rest |-> After(o3, After(o2, After(o1, o.rest))),
              instruction |->
                  AssemblerInstruction(
                      IF l.ok THEN l.token.name ELSE "",
                      o.token.name,
                      "",
                      Taken(o1) \o Taken(o2) \o Taken(o3))]
        : o3 \in {operand(After(o2, After(o1, o.rest)))}})
        : o2 \in {operand(After(o1, o.rest))}})
        : o1 \in {operand(o.rest)}})
        : o \in {opcode(After(l, s))}})
        : l \in {label_declaration(s)}})

RECURSIVE many(_)
\* the repetition of many1!: instruction_combined is applied until it fails
\* or consumes nothing
many(s) ==
    Only({IF ~r.ok \/ Len(r.rest) = Len(s)
          THEN [instructions |-> <<>>, rest |-> s]
          ELSE Only({[instructions |-> <<r.instruction>> \o m.instructions,
                      rest |-> m.rest]
                     : m \in {many(r.rest)}})
          : r \in {instruction_combined(s)}})

\* program(CompleteStr(raw)): Err when not even one instruction matches,
\* otherwise Ok((remainder, Program)) with whatever text is left over
program(raw) ==
    Only({[ok |-> m.instructions # <<>>,
           remainder |-> m.rest,
           instructions |-> m.instructions]
          : m \in {many(raw)}})

(***************************************************************************)
(* SymbolTable.                                                            *)
(***************************************************************************)
Symbol(n, off) == [name |-> n, offset |-> off]

add_symbol(symbols, s) == Append(symbols, s)

has_symbol(symbols, n) == \E k \in 1..Len(symbols) : symbols[k].name = n

\* symbol_value without the comparison of names
symbol_value_of_first(symbols, n) ==
    IF symbols # <<>> THEN symbols[1].offset ELSE -1

\* first entry with the name wins; -1 is None
symbol_value(symbols, n) ==
    IF has_symbol(symbols, n)
    THEN symbols[CHOOSE k \in 1..Len(symbols) :
                    /\ symbols[k].name = n
                    /\ \A j \in 1..(k - 1) : symbols[j].name # n].offset
    ELSE -1

set_symbol_offset(symbols, n, off) ==
    [k \in 1..Len(symbols) |->
        IF symbols[k].name = n THEN Symbol(n, off) ELSE symbols[k]]

(***************************************************************************)
(* Binary encoder (AssemblerInstruction::to_bytes / extract_operand).      *)
(***************************************************************************)
Byte == 256

\* extract_operand that pushes the low byte of an integer first
extract_operand_low_first(t, symbols) ==
    CASE t.t = "Register" -> <<t.num>>
      [] t.t = "IntegerOperand" ->
            LET w == t.num % (Byte * Byte) IN <<w % Byte, w \div Byte>>
      [] t.t = "LabelUsage" ->
            IF symbol_value(symbols, t.name) # -1
            THEN LET v == symbol_value(symbols, t.name) IN
                 <<(v \div Byte) % Byte, v % Byte>>
            ELSE <<>>
      [] OTHER -> <<>>

\* bytes one operand token appends to the word under construction
extract_operand(t, symbols) ==
    CASE t.t = "Register" -> <<t.num>>
      [] t.t = "IntegerOperand" ->
            \* write_i16::<LittleEndian>(value as i16); push wtr[1], wtr[0]
            LET w == t.num % (Byte * Byte) IN <<w \div Byte, w % Byte>>
      [] t.t = "LabelUsage" ->
            \* write_u32::<LittleEndian>(value); push wtr[1], wtr[0]
            IF symbol_value(symbols, t.name) # -1
            THEN LET v == symbol_value(symbols, t.name) IN
                 <<(v \div Byte) % Byte, v % Byte>>
            ELSE <<>>
      [] OTHER -> <<>>

RECURSIVE extract_operands(_, _)
extract_operands(ops, symbols) ==
    IF ops = <<>> THEN <<>>
    ELSE extract_operand(Head(ops), symbols) \o extract_operands(Tail(ops), symbols)

RECURSIVE pad(_)
\* while results.len() < 4 { results.push(0) }
pad(results) == IF Len(results) < WordSize THEN pad(Append(results, 0)) ELSE results

to_bytes(i, symbols) ==
    pad((IF is_opcode(i) THEN <<OpcodeByte(i.opcode)>> ELSE <<>>)
        \o extract_operands(i.operands, symbols))

(***************************************************************************)
(* Assembler: the driver state and its private operations.                 *)
(***************************************************************************)
\* Assembler::new()
new ==
    [phase |-> "First",
     symbols |-> <<>>,
     ro |-> <<>>,
     ro_offset |-> 0,
     sections |-> <<>>,
     current_section |-> "None",
     current_instruction |-> 0,
     errors |-> <<>>]

AssemblerError(kind, n) == [type |-> kind, instruction |-> n]

push_error(a, e) == [a EXCEPT !.errors = Append(@, e)]

RECURSIVE write_pie_header_from(_)
\* while header.len() <= PIE_HEADER_LENGTH { header.push(0) }
write_pie_header_from(header) ==
    IF Len(header) <= PIE_HEADER_LENGTH
    THEN write_pie_header_from(Append(header, 0))
    ELSE header

write_pie_header == write_pie_header_from(PIE_HEADER_PREFIX)

\* the conversion with every other name taken for a data section
section_from_lenient(header_name) ==
    CASE header_name = "data" -> "Data"
      [] header_name = "code" -> "Code"
      [] OTHER -> "Data"

\* From<&str> for AssemblerSection
section_from(header_name) ==
    CASE header_name = "data" -> "Data"
      [] header_name = "code" -> "Code"
      [] OTHER -> "Unknown"

\* offset a label declaration is registered with (the call at mod.rs:180
\* names none): the address cursor, one word per instruction visited
label_offset(a) == a.current_instruction * WordSize

process_label_declaration(a, i) ==
    IF ~is_label(i)
    THEN push_error(a, AssemblerError("StringConstantDeclaredWithoutLabel",
                                      a.current_instruction))
    ELSE IF has_symbol(a.symbols, get_label_name(i))
    THEN push_error(a, AssemblerError("SymbolAlreadyDeclared", NoInstruction))
    ELSE [a EXCEPT !.symbols =
            add_symbol(@, Symbol(get_label_name(i), label_offset(a)))]

process_section_header(a, header_name) ==
    IF section_from(header_name) = "Unknown" THEN a
    ELSE [a EXCEPT !.sections = Append(@, section_from(header_name)),
                   !.current_section = section_from(header_name)]

\* handle_asciiz whose cursor does not count the terminating zero byte
handle_asciiz_short_cursor(a, i) ==
    IF a.phase # "First" THEN a
    ELSE IF ~has_string_constant(i) THEN a
    ELSE IF ~is_label(i) THEN a
    ELSE LET s == as_bytes(get_string_constant(i)) IN
         [a EXCEPT !.symbols = set_symbol_offset(@, get_label_name(i), a.ro_offset),
                   !.ro = (@ \o s) \o <<0>>,
                   !.ro_offset = @ + Len(s)]

\* handle_asciiz without the test on the phase
handle_asciiz_in_any_phase(a, i) ==
    IF ~has_string_constant(i) THEN a
    ELSE IF ~is_label(i) THEN a
    ELSE LET s == as_bytes(get_string_constant(i)) IN
         [a EXCEPT !.symbols = set_symbol_offset(@, get_label_name(i), a.ro_offset),
                   !.ro = (@ \o s) \o <<0>>,
                   !.ro_offset = @ + Len(s) + 1]

handle_asciiz(a, i) ==
    IF a.phase # "First" THEN a
    ELSE IF ~has_string_constant(i) THEN a
    ELSE IF ~is_label(i) THEN a
    ELSE LET s == as_bytes(get_string_constant(i)) IN
         [a EXCEPT !.symbols = set_symbol_offset(@, get_label_name(i), a.ro_offset),
                   !.ro = (@ \o s) \o <<0>>,
                   !.ro_offset = @ + Len(s) + 1]

process_directive(a, i) ==
    IF get_directive_name(i) = "asciiz" THEN handle_asciiz(a, i)
    ELSE process_section_header(a, get_directive_name(i))

\* The test that guards process_label_declaration is written
\* self.current_instruction.is_some() (mod.rs:142).  current_instruction is a
\* u32, which has no is_some(): the line does not compile as written, and
\* what the test decides depends on how it is made to build.  Both builds
\* are kept.  "instruction": the test stays on current_instruction, which
\* holds a value at all times, and always passes.  "section": the test is
\* on current_section, the Option field that the error of the else branch
\* (NoSegmentDeclarationFound) is about.
SegmentTests == {"section", "instruction"}

segment_declared(a, test) ==
    IF test = "section" THEN a.current_section # "None" ELSE TRUE

\* one iteration of the loop of process_first_phase
first_phase_visit(a, i, test) ==
    LET a1 == IF is_label(i)
              THEN IF segment_declared(a, test)
                   THEN process_label_declaration(a, i)
                   ELSE push_error(a, AssemblerError("NoSegmentDeclarationFound",
                                                     a.current_instruction))
              ELSE a
        a2 == IF is_directive(i) THEN process_directive(a1, i) ELSE a1
    IN [a2 EXCEPT !.current_instruction = @ + 1]

\* an operand that names a label the symbol table does not hold
UnresolvedUse(t, symbols) == t.t = "LabelUsage" /\ symbol_value(symbols, t.name) = -1

\* second_phase_visit that records an error for an unresolved label
second_phase_visit_strict(a, i) ==
    LET a1 == IF is_directive(i) THEN process_directive(a, i) ELSE a
        a2 == IF is_opcode(i)
                 /\ \E k \in 1..Len(i.operands) : UnresolvedUse(i.operands[k], a.symbols)
              THEN push_error(a1, AssemblerError("ParseError", a.current_instruction))
              ELSE a1
    IN [a2 EXCEPT !.current_instruction = @ + 1]

\* one iteration of the loop of process_second_phase: the driver state after
\* it, and the bytes it appends to the body
second_phase_visit(a, i) ==
    LET a1 == IF is_directive(i) THEN process_directive(a, i) ELSE a
    IN [a1 EXCEPT !.current_instruction = @ + 1]

second_phase_bytes(a, i) ==
    IF is_opcode(i) THEN to_bytes(i, a.symbols) ELSE <<>>

(***************************************************************************)
(* Inputs explored.  A source text is written down as the statements it    *)
(* is made of, one per line, and spelled out character by character by     *)
(* source_text; a Program handed to the passes is a sequence of            *)
(* AssemblerInstruction values.                                            *)
(***************************************************************************)
Statements ==
    { DirInstr("", "data", <<>>),                      \* .data
      DirInstr("", "code", <<>>),                      \* .code
      DirInstr("", "bss", <<>>),                       \* .bss
      DirInstr("start", "code", <<>>),                 \* start: .code
      DirInstr("msg", "asciiz", <<IrString("Hi")>>),   \* msg: .asciiz 'Hi'
      DirInstr("", "asciiz", <<IrString("Hi")>>),      \* .asciiz 'Hi'
      OpInstr("hello", "inc", <<Register(0)>>),        \* hello: inc $0
      OpInstr("", "jmp", <<LabelUsage("hello")>>),     \* jmp @hello
      OpInstr("", "hlt", <<>>),                        \* hlt
      OpInstr("", "add", <<IntegerOperand(1), IntegerOperand(500)>>), \* add #1 #500
      Unparsable }                                     \* %

\* load $0 #100 / load $1 #1 / load $2 #0 / test: inc $0 / neq $0 $2 /
\* jmpe @test / hlt
SevenScenario ==
    << OpInstr("", "load", <<Register(0), IntegerOperand(100)>>),
       OpInstr("", "load", <<Register(1), IntegerOperand(1)>>),
       OpInstr("", "load", <<Register(2), IntegerOperand(0)>>),
       OpInstr("test", "inc", <<Register(0)>>),
       OpInstr("", "neq", <<Register(0), Register(2)>>),
       OpInstr("", "jmpe", <<LabelUsage("test")>>),
       OpInstr("", "hlt", <<>>) >>

\* the seven statements inside a two-section wrapper: .data / .code / ...
WrappedSevenScenario ==
    << DirInstr("", "data", <<>>), DirInstr("", "code", <<>>) >> \o SevenScenario

\* .data / .code / hello: inc $0 / jmp @hello / hlt
LabelScenario ==
    << DirInstr("", "data", <<>>),
       DirInstr("", "code", <<>>),
       OpInstr("hello", "inc", <<Register(0)>>),
       OpInstr("", "jmp", <<LabelUsage("hello")>>),
       OpInstr("", "hlt", <<>>) >>

\* .data / msg: .asciiz 'Hi' / .code / hlt
StringScenario ==
    << DirInstr("", "data", <<>>),
       DirInstr("msg", "asciiz", <<IrString("Hi")>>),
       DirInstr("", "code", <<>>),
       OpInstr("", "hlt", <<>>) >>

\* .data / .asciiz 'Hi' / .code / hlt
UnlabelledScenario ==
    << DirInstr("", "data", <<>>),
       DirInstr("", "asciiz", <<IrString("Hi")>>),
       DirInstr("", "code", <<>>),
       OpInstr("", "hlt", <<>>) >>

Scenarios ==
    {SevenScenario, WrappedSevenScenario, LabelScenario, StringScenario,
     UnlabelledScenario}

\* the source texts, as statements
Sources ==
    (UNION {[1..n -> Statements] : n \in 1..MaxLen}) \cup Scenarios

\* the Program values: every statement but the one no instruction form matches
Programs ==
    (UNION {[1..n -> Statements \ {Unparsable}] : n \in 1..MaxLen}) \cup Scenarios

DigitChar(d) ==
    CASE d = 0 -> "0" [] d = 1 -> "1" [] d = 2 -> "2" [] d = 3 -> "3"
      [] d = 4 -> "4" [] d = 5 -> "5" [] d = 6 -> "6" [] d = 7 -> "7"
      [] d = 8 -> "8" [] d = 9 -> "9"

RECURSIVE decimal(_)
\* a natural number written in digits
decimal(n) ==
    IF n < 10 THEN <<DigitChar(n)>>
    ELSE decimal(n \div 10) \o <<DigitChar(n % 10)>>

\* an operand as it is written: $0, #100, @hello, 'Hi'
operand_text(t) ==
    CASE t.t = "Register" -> <<"$">> \o decimal(t.num)
      [] t.t = "IntegerOperand" -> <<"#">> \o decimal(t.num)
      [] t.t = "LabelUsage" -> <<"@">> \o spell(t.name)
      [] t.t = "IrString" -> <<"'">> \o spell(t.name) \o <<"'">>

RECURSIVE operands_text(_)
operands_text(ops) ==
    IF ops = <<>> THEN <<>>
    ELSE <<" ">> \o operand_text(Head(ops)) \o operands_text(Tail(ops))

\* one statement as it is written: [label ": "] (opcode | "." directive)
\* and its operands, each after one blank
statement_text(i) ==
    IF i = Unparsable THEN <<"%">>
    ELSE (IF is_label(i) THEN spell(i.label) \o <<":", " ">> ELSE <<>>)
         \o (IF is_opcode(i) THEN spell(i.opcode)
             ELSE <<".">> \o spell(i.directive))
         \o operands_text(i.operands)

RECURSIVE source_text(_)
\* the statements, one per line, with no newline after the last
source_text(q) ==
    IF q = <<>> THEN <<>>
    ELSE IF Len(q) = 1 THEN statement_text(q[1])
    ELSE statement_text(Head(q)) \o <<"\n">> \o source_text(Tail(q))

(***************************************************************************)
(* State.                                                                  *)
(***************************************************************************)
VARIABLES
    lines,              \* the statements the source text was written from
    raw,                \* the source text handed to assemble(), in characters
    asm,                \* the Assembler value
    pc,                 \* position inside assemble(): idle, first, check, second, done
    p,                  \* the parsed Program
    idx,                \* position of the pass loops in p.instructions
    assembled_program,  \* local of assemble(): the header
    body,               \* local of process_second_phase: the encoded words
    results,            \* what each assemble() call returned, in call order
    calls,              \* assemble() calls started
    fresh,              \* the current call began on an Assembler nobody had used
    segment_test,       \* what the test at mod.rs:142 looks at, fixed for a build
    input,              \* the text handed to the opcode parser
    parsed,             \* the parser's result, once it has run
    operand_token,      \* the operand token handed to extract_operand
    emitted,            \* the bytes extract_operand pushed, once it has run
    table,              \* a SymbolTable used on its own
    call                \* the last operation called on table

vars == <<lines, raw, asm, pc, p, idx, assembled_program, body, results, calls,
          fresh, segment_test, input, parsed, operand_token, emitted, table, call>>

\* what the encoder and the symbol table are run on when used on their own
units == <<operand_token, emitted, table, call>>

Ok(bytes) == [kind |-> "Ok", bytes |-> bytes, errors |-> <<>>]
Err(errors) == [kind |-> "Err", bytes |-> <<>>, errors |-> errors]

\* no operation has been called on table yet
NoCall == [op |-> "", name |-> "", offset |-> 0]

\* the Assembler and assemble() before any call, with no text to assemble
DriverAtRest ==
    /\ lines = <<>>
    /\ raw = <<>>
    /\ asm = new
    /\ pc = "idle"
    /\ p = <<>>
    /\ idx = 1
    /\ assembled_program = <<>>
    /\ body = <<>>
    /\ results = <<>>
    /\ calls = 0
    /\ fresh = TRUE
    /\ segment_test = "section"

\* a label stands ahead of the first .data / .code of q.  The test at
\* mod.rs:142 guards label declarations only, and its two outcomes differ only
\* while no section is open: on any other program they give the same
\* behaviour, and one of them stands for both.
LabelAheadOfSections(q) ==
    \E j \in 1..Len(q) :
        /\ is_label(q[j])
        /\ \A m \in 1..(j - 1) :
              ~(is_directive(q[m]) /\ q[m].directive # "asciiz"
                  /\ section_from(q[m].directive) # "Unknown")

\* assemble() is about to be called on a new Assembler with a source text
Init ==
    /\ lines \in Sources
    /\ raw = source_text(lines)
    /\ asm = new
    /\ pc = "idle"
    /\ p = <<>>
    /\ idx = 1
    /\ assembled_program = <<>>
    /\ body = <<>>
    /\ results = <<>>
    /\ calls = 0
    /\ fresh = TRUE
    /\ segment_test \in (IF LabelAheadOfSections(program(raw).instructions)
                         THEN SegmentTests ELSE {"section"})
    /\ input = <<>>
    /\ parsed = <<>>
    /\ operand_token = NoToken
    /\ emitted = <<>>
    /\ table = <<>>
    /\ call = NoCall

(***************************************************************************)
(* assemble(): entry.                                                      *)
(***************************************************************************)
\* Err(e): the text does not start with an instruction, Err(vec![ParseError])
AssembleParseError ==
    /\ pc \in {"idle", "done"}
    /\ calls < MaxCalls
    /\ ~program(raw).ok
    /\ calls' = calls + 1
    /\ results' = Append(results, Err(<<AssemblerError("ParseError", NoInstruction)>>))
    /\ pc' = "done"
    /\ fresh' = (pc = "idle")
    /\ UNCHANGED <<lines, raw, asm, p, idx, assembled_program, body,
                   segment_test, input, parsed, units>>

\* Ok((_remainder, program)): write the header and enter pass 1
AssembleParsed ==
    /\ pc \in {"idle", "done"}
    /\ calls < MaxCalls
    /\ program(raw).ok
    /\ calls' = calls + 1
    /\ p' = program(raw).instructions
    /\ assembled_program' = write_pie_header
    /\ body' = <<>>
    /\ idx' = 1
    /\ pc' = "first"
    /\ fresh' = (pc = "idle")
    /\ UNCHANGED <<lines, raw, asm, results, segment_test, input, parsed, units>>

(***************************************************************************)
(* Pass 1.                                                                 *)
(***************************************************************************)
FirstPhaseVisit ==
    /\ pc = "first"
    /\ idx <= Len(p)
    /\ asm' = first_phase_visit(asm, p[idx], segment_test)
    /\ idx' = idx + 1
    /\ UNCHANGED <<lines, raw, pc, p, assembled_program, body, results, calls,
                   fresh, segment_test, input, parsed, units>>

\* FirstPhaseEnd that leaves the phase alone when pass 1 recorded an error
FirstPhaseEndIfClean ==
    /\ pc = "first"
    /\ idx > Len(p)
    /\ asm' = IF asm.errors = <<>> THEN [asm EXCEPT !.phase = "Second"] ELSE asm
    /\ pc' = "check"
    /\ UNCHANGED <<lines, raw, p, idx, assembled_program, body, results, calls,
                   fresh, segment_test, input, parsed, units>>

\* self.phase = AssemblerPhase::Second
FirstPhaseEnd ==
    /\ pc = "first"
    /\ idx > Len(p)
    /\ asm' = [asm EXCEPT !.phase = "Second"]
    /\ pc' = "check"
    /\ UNCHANGED <<lines, raw, p, idx, assembled_program, body, results, calls,
                   fresh, segment_test, input, parsed, units>>

(***************************************************************************)
(* The gate between the passes.                                            *)
(***************************************************************************)
ReturnErrors ==
    /\ pc = "check"
    /\ asm.errors # <<>>
    /\ results' = Append(results, Err(asm.errors))
    /\ pc' = "done"
    /\ UNCHANGED <<lines, raw, asm, p, idx, assembled_program, body, calls, fresh,
                   segment_test, input, parsed, units>>

ReturnInsufficientSections ==
    /\ pc = "check"
    /\ asm.errors = <<>>
    /\ Len(asm.sections) # 2
    /\ asm' = push_error(asm, AssemblerError("InsufficientSections", NoInstruction))
    /\ results' = Append(results, Err(asm'.errors))
    /\ pc' = "done"
    /\ UNCHANGED <<lines, raw, p, idx, assembled_program, body, calls, fresh,
                   segment_test, input, parsed, units>>

\* process_second_phase: self.current_instruction = 0; let mut program = vec![]
SecondPhaseStart ==
    /\ pc = "check"
    /\ asm.errors = <<>>
    /\ Len(asm.sections) = 2
    /\ asm' = [asm EXCEPT !.current_instruction = 0]
    /\ body' = <<>>
    /\ idx' = 1
    /\ pc' = "second"
    /\ UNCHANGED <<lines, raw, p, assembled_program, results, calls, fresh,
                   segment_test, input, parsed, units>>

(***************************************************************************)
(* Pass 2.                                                                 *)
(***************************************************************************)
SecondPhaseVisit ==
    /\ pc = "second"
    /\ idx <= Len(p)
    /\ body' = body \o second_phase_bytes(asm, p[idx])
    /\ asm' = second_phase_visit(asm, p[idx])
    /\ idx' = idx + 1
    /\ UNCHANGED <<lines, raw, pc, p, assembled_program, results, calls, fresh,
                   segment_test, input, parsed, units>>

\* assembled_program.append(&mut body); Ok(assembled_program)
ReturnOk ==
    /\ pc = "second"
    /\ idx > Len(p)
    /\ results' = Append(results, Ok(assembled_program \o body))
    /\ pc' = "done"
    /\ UNCHANGED <<lines, raw, asm, p, idx, assembled_program, body, calls, fresh,
                   segment_test, input, parsed, units>>

(***************************************************************************)
(* The caller replaces the Assembler by a fresh one between two calls.     *)
(***************************************************************************)
NewAssembler ==
    /\ pc = "done"
    /\ calls < MaxCalls
    /\ asm' = new
    /\ pc' = "idle"
    /\ fresh' = TRUE
    /\ UNCHANGED <<lines, raw, p, idx, assembled_program, body, results, calls,
                   segment_test, input, parsed, units>>

(***************************************************************************)
(* assemble() on a source text, end to end.  What program() returns holds  *)
(* no directive, so pass 1 never records a section header, the gate never  *)
(* finds two sections, and the steps of pass 2 are never taken from a      *)
(* source text: they are left out of Next and are part of NextPasses.      *)
(***************************************************************************)
Next ==
    \/ AssembleParseError
    \/ AssembleParsed
    \/ FirstPhaseVisit
    \/ FirstPhaseEnd
    \/ ReturnErrors
    \/ ReturnInsufficientSections
    \/ NewAssembler

Spec == Init /\ [][Next]_vars

(***************************************************************************)
(* The arm of assemble() that follows a successful parse, run once on a    *)
(* new Assembler and a Program value: the header, pass 1, the gate, pass 2 *)
(* and the returned Result.  The Program values include the directive form *)
(* and the label-usage operand that AssemblerInstruction and Token provide *)
(* for, which the passes handle whether or not a text parses to them.      *)
(***************************************************************************)
InitPasses ==
    /\ p \in Programs
    /\ lines = <<>>
    /\ raw = <<>>
    /\ asm = new
    /\ pc = "first"
    /\ idx = 1
    /\ assembled_program = write_pie_header
    /\ body = <<>>
    /\ results = <<>>
    /\ calls = 1
    /\ fresh = TRUE
    /\ segment_test \in (IF LabelAheadOfSections(p)
                         THEN SegmentTests ELSE {"section"})
    /\ input = <<>>
    /\ parsed = <<>>
    /\ operand_token = NoToken
    /\ emitted = <<>>
    /\ table = <<>>
    /\ call = NoCall

NextPasses ==
    \/ FirstPhaseVisit
    \/ FirstPhaseEnd
    \/ ReturnErrors
    \/ ReturnInsufficientSections
    \/ SecondPhaseStart
    \/ SecondPhaseVisit
    \/ ReturnOk

SpecPasses == InitPasses /\ [][NextPasses]_vars

(***************************************************************************)
(* The opcode parser run on one text.                                      *)
(***************************************************************************)
InitTokens ==
    /\ input \in Texts
    /\ parsed = <<>>
    /\ lines = <<>>
    /\ raw = <<>>
    /\ asm = new
    /\ pc = "idle"
    /\ p = <<>>
    /\ idx = 1
    /\ assembled_program = <<>>
    /\ body = <<>>
    /\ results = <<>>
    /\ calls = 0
    /\ fresh = TRUE
    /\ segment_test = "section"
    /\ operand_token = NoToken
    /\ emitted = <<>>
    /\ table = <<>>
    /\ call = NoCall

\* opcode(CompleteStr(input))
OpcodeParse ==
    /\ parsed = <<>>
    /\ parsed' = <<opcode(input)>>
    /\ UNCHANGED <<lines, raw, asm, pc, p, idx, assembled_program, body, results, calls,
                   fresh, segment_test, input, units>>

NextTokens == OpcodeParse

SpecTokens == InitTokens /\ [][NextTokens]_vars

(***************************************************************************)
(* extract_operand run on one operand token: a register or an integer.     *)
(***************************************************************************)
\* highest register index enumerated
MaxRegister == 31
\* how far the enumerated integers reach on either side of each IntCentres value
MaxSpread == 40
\* zero, the ends of the i16 range and the first values past 16 bits
IntCentres == {0, 32767, -32768, 65536, -65536}
IntValues == {c + d : c \in IntCentres, d \in (0 - MaxSpread)..MaxSpread}
Operands ==
    {Register(r) : r \in 0..MaxRegister} \cup {IntegerOperand(v) : v \in IntValues}

InitOperands ==
    /\ operand_token \in Operands
    /\ emitted = <<>>
    /\ DriverAtRest
    /\ input = <<>>
    /\ parsed = <<>>
    /\ table = <<>>
    /\ call = NoCall

\* AssemblerInstruction::extract_operand(&operand, &mut results, symbols)
ExtractOperand ==
    /\ emitted = <<>>
    /\ emitted' = <<extract_operand(operand_token, <<>>)>>
    /\ UNCHANGED <<lines, raw, asm, pc, p, idx, assembled_program, body, results, calls,
                   fresh, segment_test, input, parsed, operand_token, table, call>>

NextOperands == ExtractOperand

SpecOperands == InitOperands /\ [][NextOperands]_vars

(***************************************************************************)
(* A SymbolTable used on its own, as test_symbol_table does.               *)
(***************************************************************************)
\* most symbols added to the table
MaxSymbols == 3
\* highest offset enumerated, next to the 12 of test_symbol_table
MaxOffset == 1
SymbolNames == {"test", "msg"}
\* the names looked up: those that are added and one that never is
LookupNames == SymbolNames \cup {"does_not_exist"}
Offsets == (0..MaxOffset) \cup {12}

InitSymbols ==
    /\ table = <<>>
    /\ call = NoCall
    /\ DriverAtRest
    /\ input = <<>>
    /\ parsed = <<>>
    /\ operand_token = NoToken
    /\ emitted = <<>>

\* sym.add_symbol(Symbol::new(n, SymbolType::Label, o))
AddSymbol ==
    /\ Len(table) < MaxSymbols
    /\ \E n \in SymbolNames, o \in Offsets :
          /\ table' = add_symbol(table, Symbol(n, o))
          /\ call' = [op |-> "add_symbol", name |-> n, offset |-> o]
    /\ UNCHANGED <<lines, raw, asm, pc, p, idx, assembled_program, body, results, calls,
                   fresh, segment_test, input, parsed, operand_token, emitted>>

\* sym.set_symbol_offset(n, o)
SetSymbolOffset ==
    /\ \E n \in LookupNames, o \in Offsets :
          /\ table' = set_symbol_offset(table, n, o)
          /\ call' = [op |-> "set_symbol_offset", name |-> n, offset |-> o]
    /\ UNCHANGED <<lines, raw, asm, pc, p, idx, assembled_program, body, results, calls,
                   fresh, segment_test, input, parsed, operand_token, emitted>>

NextSymbols == AddSymbol \/ SetSymbolOffset

SpecSymbols == InitSymbols /\ [][NextSymbols]_vars

(***************************************************************************)
(* Vocabulary of the properties: what a program contains, read off its     *)
(* statements and not off the driver's state.                              *)
(***************************************************************************)
\* the call in progress (or just finished) runs on a fresh Assembler
Returned == pc = "done" /\ fresh
result == results[Len(results)]

IsSectionDirective(i) == is_directive(i) /\ i.directive \in {"data", "code"}
SectionCount(q) == Cardinality({j \in 1..Len(q) : IsSectionDirective(q[j])})
OpcodeCount(q) == Cardinality({j \in 1..Len(q) : is_opcode(q[j])})
\* number of opcode instructions before position j
OpcodesBefore(q, j) == Cardinality({m \in 1..(j - 1) : is_opcode(q[m])})
\* a section directive precedes position j
SectionOpenAt(q, j) == \E m \in 1..(j - 1) : IsSectionDirective(q[m])
\* a label declared at j while a section is open
DeclaredAt(q, j) == is_label(q[j]) /\ SectionOpenAt(q, j)
\* a label declared at j although an earlier open-section line declared it
DuplicateAt(q, j) ==
    DeclaredAt(q, j) /\ \E m \in 1..(j - 1) : DeclaredAt(q, m) /\ q[m].label = q[j].label
NoSegmentAt(q, j) == is_label(q[j]) /\ ~SectionOpenAt(q, j)
UnlabelledStringAt(q, j) ==
    is_directive(q[j]) /\ q[j].directive = "asciiz" /\ ~is_label(q[j])

HasError(errors, kind) == \E k \in 1..Len(errors) : errors[k].type = kind

\* the prefix and the zero padding of a header of exactly PIE_HEADER_LENGTH bytes
IsPieHeader(h) ==
    /\ Len(h) = PIE_HEADER_LENGTH
    /\ SubSeq(h, 1, Len(PIE_HEADER_PREFIX)) = PIE_HEADER_PREFIX
    /\ \A j \in (Len(PIE_HEADER_PREFIX) + 1)..Len(h) : h[j] = 0

(***************************************************************************)
(* C1  Header invariant: every successful assemble() returns the magic     *)
(* prefix, zeros up to byte PIE_HEADER_LENGTH, and then the body, which    *)
(* therefore starts at offset PIE_HEADER_LENGTH.                           *)
(***************************************************************************)
C1_HeaderIs64Bytes ==
    (Returned /\ result.kind = "Ok") =>
        /\ Len(result.bytes) >= PIE_HEADER_LENGTH
        /\ IsPieHeader(SubSeq(result.bytes, 1, PIE_HEADER_LENGTH))
        /\ SubSeq(result.bytes, PIE_HEADER_LENGTH + 1, Len(result.bytes)) = body

(***************************************************************************)
(* C2  Word alignment: the body of a successful assembly is a whole number *)
(* of 4-byte words, one per opcode instruction in source order; to_bytes   *)
(* yields exactly 4 bytes whatever the operands are.                       *)
(***************************************************************************)
C2_WordAligned ==
    (Returned /\ result.kind = "Ok") =>
        /\ Len(body) % WordSize = 0
        /\ Len(body) = WordSize * OpcodeCount(p)
        /\ \A j \in 1..Len(p) :
              is_opcode(p[j]) => Len(to_bytes(p[j], asm.symbols)) = WordSize

(***************************************************************************)
(* C3  All or nothing: assemble() returns Ok with the header followed by   *)
(* one word for every opcode instruction of the program, or Err with a     *)
(* non-empty error list; pass 2 never runs once pass 1 recorded an error.   *)
(***************************************************************************)
C3_AllOrNothing ==
    /\ (pc = "second" /\ fresh) => asm.errors = <<>>
    /\ (Returned /\ result.kind = "Err") => (result.errors # <<>> /\ result.bytes = <<>>)
    /\ (Returned /\ result.kind = "Ok") =>
          Len(result.bytes) = Len(assembled_program) + WordSize * OpcodeCount(p)

(***************************************************************************)
(* C4  Symbol uniqueness: the symbol table never holds two symbols of one  *)
(* name, and every program with two label declarations of one name fails   *)
(* with SymbolAlreadyDeclared and returns no bytecode.                     *)
(***************************************************************************)
SameLabelTwice(q) ==
    \E j, k \in 1..Len(q) : j < k /\ is_label(q[j]) /\ q[j].label = q[k].label

OneDataOneCode(q) ==
    /\ Cardinality({j \in 1..Len(q) : q[j].directive = "data"}) = 1
    /\ Cardinality({j \in 1..Len(q) : q[j].directive = "code"}) = 1

\* every statement of q is an instruction and q gives pass 1 nothing to report
OtherwiseErrorFree(q) ==
    \A j \in 1..Len(q) :
        /\ q[j] # Unparsable
        /\ ~NoSegmentAt(q, j)
        /\ ~DuplicateAt(q, j)
        /\ ~UnlabelledStringAt(q, j)

C5_SectionCountEnforced ==
    /\ (Returned /\ program(raw).ok /\ SectionCount(p) # 2) =>
          /\ result.kind = "Err"
          /\ HasError(result.errors, "InsufficientSections")
    /\ (Returned /\ OneDataOneCode(lines) /\ OtherwiseErrorFree(lines)) =>
          result.kind = "Ok"

(***************************************************************************)
(* C6  Label resolution: a label declared on an opcode instruction         *)
(* resolves to the body offset at which that instruction's word begins,    *)
(* and a word that uses the label carries the low 16 bits of that offset,  *)
(* high byte first.                                                        *)
(***************************************************************************)
C6_LabelIsWordOffset ==
    (Returned /\ result.kind = "Ok") =>
        \A k \in 1..Len(p) :
            (is_label(p[k]) /\ is_opcode(p[k])) =>
                LET off == WordSize * OpcodesBefore(p, k) IN
                /\ symbol_value(asm.symbols, p[k].label) = off
                /\ \A j \in 1..Len(p) :
                      (is_opcode(p[j]) /\ p[j].operands = <<LabelUsage(p[k].label)>>) =>
                          to_bytes(p[j], asm.symbols) =
                              <<OpcodeByte(p[j].opcode),
                                (off \div Byte) % Byte, off % Byte, 0>>

(***************************************************************************)
(* C7  Artifact length: a valid two-section program returns exactly        *)
(* PIE_HEADER_LENGTH + 4 * (opcode instructions) bytes; the 7-instruction  *)
(* scenario returns the header and 28 body bytes, with neither the         *)
(* read-only data nor the symbol table in the returned bytes.              *)
(***************************************************************************)
C7_ArtifactLength ==
    /\ (Returned /\ result.kind = "Ok") =>
          Len(result.bytes) = PIE_HEADER_LENGTH + WordSize * OpcodeCount(p)
    /\ (Returned /\ lines = WrappedSevenScenario) =>
          /\ result.kind = "Ok"
          /\ Len(result.bytes) = PIE_HEADER_LENGTH + 7 * WordSize
          /\ Len(body) = 7 * WordSize

(***************************************************************************)
(* C8  Whole-program parse failure: a text the grammar cannot consume      *)
(* completely makes assemble() return ParseError, with no pass run and no  *)
(* bytes returned.                                                         *)
(***************************************************************************)
C8_TrailingTextIsParseError ==
    /\ (pc \in {"first", "check"} /\ fresh) => program(raw).remainder = <<>>
    /\ (Returned /\ program(raw).remainder # <<>>) =>
          result = Err(<<AssemblerError("ParseError", NoInstruction)>>)

(***************************************************************************)
(* C9  Batch diagnostics: pass 1 visits every instruction, and the error   *)
(* list holds one entry per offending instruction, in source order: label  *)
(* with no section open, duplicate label, .asciiz without label.           *)
(***************************************************************************)
RECURSIVE ExpectedErrors(_, _)
\* the diagnostics owed for positions j..Len(q) of a program
ExpectedErrors(q, j) ==
    IF j > Len(q) THEN <<>>
    ELSE (IF NoSegmentAt(q, j)
             THEN <<AssemblerError("NoSegmentDeclarationFound", j - 1)>>
          ELSE IF DuplicateAt(q, j)
             THEN <<AssemblerError("SymbolAlreadyDeclared", NoInstruction)>>
          ELSE <<>>)
         \o (IF UnlabelledStringAt(q, j)
                THEN <<AssemblerError("StringConstantDeclaredWithoutLabel", j - 1)>>
             ELSE <<>>)
         \o ExpectedErrors(q, j + 1)

C9_BatchDiagnostics ==
    /\ (pc = "check" /\ fresh) =>
          (idx = Len(p) + 1 /\ asm.errors = ExpectedErrors(p, 1))
    /\ (Returned /\ ExpectedErrors(p, 1) # <<>>) =>
          result = Err(ExpectedErrors(p, 1))

(***************************************************************************)
(* C10  An .asciiz directive on an instruction without a label records     *)
(* StringConstantDeclaredWithoutLabel with the instruction index, appends  *)
(* nothing to the read-only buffer, and makes assemble() fail.             *)
(***************************************************************************)
C10_UnlabelledStringIsAnError ==
    /\ (pc = "first" /\ fresh) =>
          \A j \in 1..(idx - 1) :
              UnlabelledStringAt(p, j) =>
                  \E k \in 1..Len(asm.errors) :
                      asm.errors[k] =
                          AssemblerError("StringConstantDeclaredWithoutLabel", j - 1)
    /\ (Returned /\ \E j \in 1..Len(p) : UnlabelledStringAt(p, j)) =>
          result.kind = "Err"

(***************************************************************************)
(* C11  A label declaration that pass 1 processes while no section is open *)
(* records NoSegmentDeclarationFound with the current instruction index    *)
(* and does not add the label to the symbol table; a label declared after  *)
(* a section directive is registered without this error.                   *)
(***************************************************************************)
\* the step is one visit of pass 1, on a fresh Assembler, of a labelled line
LabelVisit == pc = "first" /\ fresh /\ idx' = idx + 1 /\ is_label(p[idx])

C11_LabelNeedsSection ==
    [][LabelVisit =>
          IF asm.current_section = "None"
          THEN /\ asm'.errors =
                      Append(asm.errors,
                             AssemblerError("NoSegmentDeclarationFound",
                                            asm.current_instruction))
               /\ asm'.symbols = asm.symbols
          ELSE /\ has_symbol(asm'.symbols, p[idx].label)
               /\ \A k \in (Len(asm.errors) + 1)..Len(asm'.errors) :
                     asm'.errors[k].type # "NoSegmentDeclarationFound"]_vars

(***************************************************************************)
(* C12  String constant placement: for every labelled .asciiz 'S' pass 1    *)
(* sets the offset of the label's symbol to the value the read-only cursor *)
(* had before S was appended, appends the bytes of S and one zero byte to  *)
(* the read-only buffer, and advances the cursor by len(S) + 1; for        *)
(* `.data / msg: .asciiz 'Hi' / .code / hlt`, msg has offset 0 and the     *)
(* buffer is 72, 105, 0.                                                   *)
(***************************************************************************)
\* the step is one visit of pass 1, on a fresh Assembler, of a labelled
\* .asciiz line with its string operand
StringVisit ==
    /\ pc = "first" /\ fresh /\ idx' = idx + 1
    /\ is_directive(p[idx]) /\ p[idx].directive = "asciiz"
    /\ is_label(p[idx]) /\ has_string_constant(p[idx])

\* the buffer and the cursor after the visit of p[idx]
StringAppended ==
    LET s == as_bytes(get_string_constant(p[idx])) IN
    /\ asm'.ro = asm.ro \o s \o <<0>>
    /\ asm'.ro_offset = asm.ro_offset + Len(s) + 1

StringScenarioPlaced ==
    (Returned /\ lines = StringScenario) =>
        /\ symbol_value(asm.symbols, "msg") = 0
        /\ asm.ro = <<72, 105, 0>>

C12_EveryLabelledStringIsPlaced ==
    /\ [][StringVisit =>
             /\ symbol_value(asm'.symbols, p[idx].label) = asm.ro_offset
             /\ StringAppended]_vars
    /\ []StringScenarioPlaced

(***************************************************************************)
(* C13  Determinism: two assembly runs on the same source text return      *)
(* identical results: the same bytes when the text is valid, the same      *)
(* error list when it is not.                                              *)
(***************************************************************************)
C13_Determinism ==
    \A j, k \in 1..Len(results) : results[j] = results[k]

(***************************************************************************)
(* C14  No state crosses invocations: every assemble() run                 *)
(* starts from the initial driver state (phase First, no symbols, sections *)
(* or errors, empty read-only buffer, cursor 0, no current section), so    *)
(* its result does not depend on an earlier call, an earlier call on the   *)
(* same Assembler value included.                                          *)
(***************************************************************************)
\* pass 1 of the current call is about to visit its first instruction
RunStarts == pc = "first" /\ idx = 1

C14_EveryRunStartsFromNew ==
    /\ RunStarts => asm = new
    /\ (pc = "done" /\ Len(results) >= 2) => result = results[1]

(***************************************************************************)
(* C15  An alphabetic word that is not in the mnemonic table is accepted   *)
(* by the opcode parser and yields an Op token that carries the illegal    *)
(* opcode: the token match does not fail.                                  *)
(***************************************************************************)
\* the text is one alphabetic word that is no mnemonic
UnknownMnemonic(s) ==
    /\ s # <<>>
    /\ \A k \in 1..Len(s) : s[k] \in Letters
    /\ s \notin Mnemonics

C15_UnknownMnemonicIsIllegalOpcode ==
    (parsed # <<>> /\ UnknownMnemonic(input)) =>
        /\ parsed[1].ok
        /\ parsed[1].token = Op("igl")
        /\ parsed[1].rest = <<>>
        /\ OpcodeByte(parsed[1].token.name) = 100

\* the parser has accepted the word aold as an illegal opcode
C15_Witness ==
    /\ input = <<"a", "o", "l", "d">>
    /\ parsed = <<[ok |-> TRUE, rest |-> <<>>, token |-> Op("igl")]>>

(***************************************************************************)
(* C16  Phase protocol: the phase of a run starts as First, becomes         *)
(* Second once, when pass 1 has visited the last instruction, whether or   *)
(* not pass 1 recorded errors, and never returns to First; no instruction  *)
(* is encoded while the phase is First.                                    *)
(***************************************************************************)
C16_PhaseProtocol ==
    /\ [](pc = "first" => asm.phase = "First")
    /\ [][asm'.phase # asm.phase =>
             /\ asm.phase = "First" /\ asm'.phase = "Second"
             /\ pc = "first" /\ idx = Len(p) + 1 /\ pc' = "check"]_vars
    /\ [](pc \in {"check", "second", "done"} => asm.phase = "Second")
    /\ [][Len(body') > Len(body) =>
             (asm.phase = "Second" /\ asm'.phase = "Second")]_vars
    /\ [](pc = "first" => body = <<>>)

\* pass 1 recorded an error and the phase is Second all the same
C16_Witness ==
    /\ Returned /\ result.kind = "Err"
    /\ asm.errors # <<>>
    /\ ~HasError(asm.errors, "InsufficientSections")
    /\ asm.phase = "Second"

(***************************************************************************)
(* C17  Pass 2 does not re-apply .asciiz: processing a directive while the *)
(* phase is Second leaves the read-only buffer, its cursor and every       *)
(* symbol offset as they were at the end of pass 1, and emits no body      *)
(* bytes.                                                                  *)
(***************************************************************************)
\* the step is one visit of pass 2
SecondVisit == pc = "second" /\ idx' = idx + 1

ReadOnlyKept ==
    /\ asm'.ro = asm.ro
    /\ asm'.ro_offset = asm.ro_offset
    /\ asm'.symbols = asm.symbols

C17_PassTwoKeepsStrings ==
    /\ [][(SecondVisit /\ is_directive(p[idx])) =>
             (asm.phase = "Second" /\ ReadOnlyKept /\ body' = body)]_vars
    /\ [][(pc = "second" \/ pc' = "second") => ReadOnlyKept]_vars

\* pass 2 has gone past a labelled .asciiz and the buffer holds one copy
C17_Witness ==
    /\ pc = "second" /\ fresh
    /\ \E j \in 1..(idx - 1) :
          p[j].directive = "asciiz" /\ is_label(p[j]) /\ has_string_constant(p[j])
    /\ asm.ro = <<72, 105, 0>>
    /\ asm.ro_offset = 3
    /\ body = <<>>

(***************************************************************************)
(* C18  Section tracking in pass 2 is idempotent: after pass 2 the         *)
(* seen-sections list equals the list at the end of pass 1, so a valid     *)
(* program still holds exactly two sections, and the current section is    *)
(* the one pass 1 ended with.                                              *)
(***************************************************************************)
RECURSIVE SeenSections(_)
\* the sections that one pass over q meets, in order
SeenSections(q) ==
    IF q = <<>> THEN <<>>
    ELSE (IF IsSectionDirective(Head(q))
             THEN <<section_from(Head(q).directive)>> ELSE <<>>)
         \o SeenSections(Tail(q))

C18_PassTwoSectionsIdempotent ==
    /\ (pc = "second" /\ fresh /\ idx = 1) =>
          /\ asm.sections = SeenSections(p)
          /\ asm.current_section = asm.sections[Len(asm.sections)]
    /\ (Returned /\ result.kind = "Ok") =>
          /\ asm.sections = SeenSections(p)
          /\ Len(asm.sections) = 2
          /\ asm.current_section = SeenSections(p)[2]

(***************************************************************************)
(* C19  A section-header directive whose name is neither data nor code is  *)
(* ignored: it is not added to the seen-sections list, the current section *)
(* stays as it was, no error is recorded, and it does not count toward the *)
(* exactly-two-sections rule.                                              *)
(***************************************************************************)
\* the step is one visit, in either pass, of a section header of another name
UnknownHeaderVisit ==
    /\ pc \in {"first", "second"} /\ idx' = idx + 1
    /\ is_directive(p[idx]) /\ ~is_label(p[idx])
    /\ p[idx].directive \notin {"data", "code", "asciiz"}

C19_UnknownSectionIgnored ==
    /\ [][UnknownHeaderVisit =>
             /\ asm'.sections = asm.sections
             /\ asm'.current_section = asm.current_section
             /\ asm'.errors = asm.errors]_vars
    /\ []((pc = "check" /\ fresh) => Len(asm.sections) = SectionCount(p))

\* a program with .data, .code and .bss passed the two-sections gate
C19_Witness ==
    /\ Returned /\ result.kind = "Ok"
    /\ \E j \in 1..Len(p) : p[j].directive = "bss"
    /\ SectionCount(p) = 2
    /\ asm.errors = <<>>

(***************************************************************************)
(* C20  An unresolved label reference is not fatal: encoding emits no      *)
(* bytes for that operand, adds nothing to the error list and goes on, and *)
(* assemble() returns Ok with a 4-byte word for the instruction.           *)
(***************************************************************************)
\* the step is the visit in pass 2 of an opcode instruction whose only
\* operand names a label that is not in the symbol table
UnresolvedVisit ==
    /\ pc = "second" /\ idx' = idx + 1
    /\ is_opcode(p[idx]) /\ Len(p[idx].operands) = 1
    /\ UnresolvedUse(p[idx].operands[1], asm.symbols)

C20_UnresolvedLabelIsNotFatal ==
    /\ [][UnresolvedVisit =>
             /\ body' = body \o <<OpcodeByte(p[idx].opcode), 0, 0, 0>>
             /\ asm'.errors = asm.errors
             /\ asm'.symbols = asm.symbols
             /\ pc' = "second"]_vars
    /\ []((pc = "second" /\ idx > Len(p)) => (asm.errors = <<>> /\ ENABLED ReturnOk))
    /\ [][(pc = "second" /\ pc' = "done") =>
             (results'[Len(results')] = Ok(assembled_program \o body))]_vars

\* `.data / .code / jmp @hello` was assembled with hello declared nowhere
C20_Witness ==
    /\ Returned /\ result.kind = "Ok"
    /\ \E j \in 1..Len(p) :
          /\ is_opcode(p[j]) /\ Len(p[j].operands) = 1
          /\ UnresolvedUse(p[j].operands[1], asm.symbols)
    /\ body = <<6, 0, 0, 0>>
    /\ asm.errors = <<>>

(***************************************************************************)
(* C21  Operand encoding round trip: a register operand $r, r in 0..31, is *)
(* emitted as the single byte r; an integer operand #v is emitted as two   *)
(* bytes hi, lo with hi * 256 + lo = v mod 2^16, high byte first; decoding *)
(* the bytes by this layout gives back the register index and the integer  *)
(* truncated to 16 bits.                                                   *)
(***************************************************************************)
\* the documented layout, read back: one byte is a register index, two bytes
\* are a 16-bit value with its high byte first
DecodeOperand(bytes) ==
    IF Len(bytes) = 1 THEN bytes[1] ELSE bytes[1] * Byte + bytes[2]

IsByte(b) == b \in 0..(Byte - 1)

C21_OperandRoundTrip ==
    emitted # <<>> =>
        LET bytes == emitted[1] IN
        /\ \A k \in 1..Len(bytes) : IsByte(bytes[k])
        /\ operand_token.t = "Register" =>
              (bytes = <<operand_token.num>> /\ DecodeOperand(bytes) = operand_token.num)
        /\ operand_token.t = "IntegerOperand" =>
              /\ Len(bytes) = 2
              /\ bytes[1] * Byte + bytes[2] = operand_token.num % (Byte * Byte)
              /\ DecodeOperand(bytes) = operand_token.num % (Byte * Byte)

\* an integer past 16 bits was emitted truncated, high byte first
C21_Witness ==
    /\ operand_token = IntegerOperand(65536 + 40)
    /\ emitted = <<(<<0, 40>>)>>

(***************************************************************************)
(* C22  Symbol table lookup: after add_symbol of a symbol with name n and  *)
(* offset o into a table that does not hold n, symbol_value(n) is o; after *)
(* set_offset(n, o2) it is o2; symbol_value of a name that was never added *)
(* is none; and adding a symbol changes the lookup of no other name.       *)
(***************************************************************************)
\* some entry of the table t has the name n
Holds(t, n) == \E k \in 1..Len(t) : t[k].name = n

\* the step is a call of add_symbol, or of set_symbol_offset
Added == call'.op = "add_symbol" /\ Len(table') = Len(table) + 1
OffsetSet == call'.op = "set_symbol_offset" /\ Len(table') = Len(table)

C22_SymbolLookup ==
    /\ [][Added =>
             /\ ~Holds(table, call'.name) =>
                   symbol_value(table', call'.name) = call'.offset
             /\ \A m \in LookupNames \ {call'.name} :
                   symbol_value(table', m) = symbol_value(table, m)]_vars
    /\ [][(OffsetSet /\ Holds(table, call'.name)) =>
             symbol_value(table', call'.name) = call'.offset]_vars
    /\ [](\A m \in LookupNames : ~Holds(table, m) => symbol_value(table, m) = -1)

\* test_symbol_table: test was added at 12, then patched, next to another name
C22_Witness ==
    /\ Len(table) = 2
    /\ table[1].name = "msg" /\ table[2].name = "test"
    /\ call = [op |-> "set_symbol_offset", name |-> "test", offset |-> 12]
    /\ symbol_value(table, "test") = 12
    /\ symbol_value(table, "msg") # 12
    /\ symbol_value(table, "does_not_exist") = -1

(***************************************************************************)
(* C23  The opcode parser: a word that is not a known                      *)
(* mnemonic, such as aold, is rejected: the parser does not return a       *)
(* successful parse for it.                                                *)
(***************************************************************************)
C23_UnknownMnemonicIsRejected ==
    (parsed # <<>> /\ UnknownMnemonic(input)) => ~parsed[1].ok

(***************************************************************************)
(* C24  In every reachable state of the driver the read-only cursor        *)
(* ro_offset equals the length of the read-only buffer ro, and the buffer  *)
(* is the concatenation, in source order, of the strings of the labelled   *)
(* .asciiz directives processed so far, each followed by one 0 byte.       *)
(***************************************************************************)
RECURSIVE PlacedStrings(_)
\* the strings of the labelled .asciiz directives of q, each with its 0 byte
PlacedStrings(q) ==
    IF q = <<>> THEN <<>>
    ELSE (IF /\ is_directive(Head(q)) /\ Head(q).directive = "asciiz"
             /\ is_label(Head(q)) /\ has_string_constant(Head(q))
          THEN as_bytes(get_string_constant(Head(q))) \o <<0>>
          ELSE <<>>)
         \o PlacedStrings(Tail(q))

\* the instructions that pass 1 has processed so far
ProcessedSoFar == IF pc = "first" THEN SubSeq(p, 1, idx - 1) ELSE p

C24_ReadOnlyBuffer ==
    /\ asm.ro_offset = Len(asm.ro)
    /\ asm.ro = PlacedStrings(ProcessedSoFar)

\* two strings were placed one after the other
C24_Witness ==
    /\ pc = "first" /\ fresh /\ idx = 3
    /\ asm.ro = <<72, 105, 0, 72, 105, 0>>
    /\ asm.ro_offset = 6

(***************************************************************************)
(* C25  Within one pass-1 step the label declaration of an instruction is  *)
(* handled before its directive: a label on the very line that opens the   *)
(* first section (start: .code as the first instruction) is judged against *)
(* the section state before that line and reported as declared with no     *)
(* section open, while the section directive on that line is recorded.     *)
(***************************************************************************)
\* the step is the visit in pass 1, on a fresh Assembler with no section
\* open, of a line that carries a label and a .data or .code directive
LabelledSectionVisit ==
    /\ pc = "first" /\ fresh /\ idx' = idx + 1
    /\ is_label(p[idx]) /\ IsSectionDirective(p[idx])
    /\ asm.current_section = "None"

C25_LabelJudgedBeforeDirective ==
    [][LabelledSectionVisit =>
          /\ asm'.errors =
                Append(asm.errors,
                       AssemblerError("NoSegmentDeclarationFound",
                                      asm.current_instruction))
          /\ asm'.symbols = asm.symbols
          /\ asm'.sections =
                Append(asm.sections, section_from(p[idx].directive))
          /\ asm'.current_section = section_from(p[idx].directive)]_vars

====
